---------------------------- MODULE Spec2Model ----------------------------
(***************************************************************************)
(* Model of SimpleComposableMemory                                         *)
(* (llama_index/core/memory/simple_composable_memory.py).                  *)
(*                                                                         *)
(* A string is a sequence of tokens; every token is a piece of text, and   *)
(* the Python string is the concatenation of the tokens.  No token begins  *)
(* or ends with whitespace unless it is one whitespace character, so that  *)
(* str.strip() removes whole tokens, and the introductory marker sentence  *)
(* is several tokens, so that str.split() has to find a real substring.    *)
(*                                                                         *)
(* Three specifications:                                                   *)
(*   SpecCompose  the composition algorithm of get, applied to the         *)
(*                histories the sources return, call after call, each call *)
(*                receiving the previous result as the primary history;    *)
(*   Spec         the coordinator over its memory sources: get, get_all,   *)
(*                put, set, reset, reset_all, with sources that may fail   *)
(*                and that may or may not share their list objects.        *)
(*   SpecConstruct  the constructor and the factory from_defaults, called  *)
(*                with any list of sources, the empty one included.        *)
(***************************************************************************)
EXTENDS Integers, Sequences, FiniteSets, TLC

(***************************************************************************)
(* Bounds of the model.                                                    *)
(***************************************************************************)
\* number of memory sources handed to the constructor at most
NumSources == 3
\* longest stored history a put may still extend
MaxLen == 2
\* number of successive get calls of SpecCompose
MaxCalls == 3

(***************************************************************************)
(* Text.                                                                   *)
(***************************************************************************)
DEFAULT_INTRO_HISTORY_MESSAGE ==
    << "Below are a set of relevant dialogues retrieved from", " ",
       "potentially several memory sources:" >>

DEFAULT_OUTRO_HISTORY_MESSAGE ==
    << "This is the end of the of retrieved message dialogues." >>

DEFAULT_SYSTEM_MESSAGE == << "You are a helpful assistant." >>

\* MessageRole
SYSTEM == "system"
USER == "user"
ASSISTANT == "assistant"

\* str.upper() of a role
upper(role) ==
    CASE role = "system" -> "SYSTEM"
      [] role = "user" -> "USER"
      [] role = "assistant" -> "ASSISTANT"
      [] OTHER -> role

\* str(ix) of a small integer
str(n) ==
    CASE n = 0 -> "0" [] n = 1 -> "1" [] n = 2 -> "2" [] n = 3 -> "3" [] n = 4 -> "4"
      [] n = 5 -> "5" [] n = 6 -> "6" [] OTHER -> "many"

\* the characters str.strip() removes
IsWhitespace(t) == t \in {" ", "\n", "\t"}

RECURSIVE lstrip(_)
lstrip(s) ==
    IF s # <<>> /\ IsWhitespace(Head(s)) THEN lstrip(Tail(s)) ELSE s

RECURSIVE rstrip(_)
rstrip(s) ==
    IF s # <<>> /\ IsWhitespace(s[Len(s)])
    THEN rstrip(SubSeq(s, 1, Len(s) - 1))
    ELSE s

\* a plausible slip: only the tail is trimmed
strip_trailing_only(s) == rstrip(s)

\* str.strip(): leading and trailing whitespace removed
strip(s) == rstrip(lstrip(s))

\* str.find(sub), 1-based; 0 when sub does not occur
find(s, sub) ==
    LET hits == { i \in 1..(Len(s) - Len(sub) + 1) :
                      SubSeq(s, i, i + Len(sub) - 1) = sub }
    IN  IF hits = {} THEN 0 ELSE CHOOSE i \in hits : \A j \in hits : i <= j

\* a plausible slip: nothing is cut off
split_nothing(s, sep) == s

\* a plausible slip: the text is cut at the last occurrence of sep
split_at_last(s, sep) ==
    LET hits == { i \in 1..(Len(s) - Len(sep) + 1) :
                      SubSeq(s, i, i + Len(sep) - 1) = sep }
    IN  IF hits = {} THEN s
        ELSE SubSeq(s, 1, (CHOOSE i \in hits : \A j \in hits : j <= i) - 1)

\* s.split(sep)[0]: the text before the first occurrence of sep
split_first(s, sep) ==
    IF find(s, sep) = 0 THEN s ELSE SubSeq(s, 1, find(s, sep) - 1)

ChatMessage(content, role) == [role |-> role, content |-> content]

(***************************************************************************)
(* _format_secondary_messages                                              *)
(***************************************************************************)
\* a plausible slip: the header names {ix}, counting from zero
SectionHeaderFromZero(ix) ==
    << "\n", "=====Relevant messages from memory source", " ", str(ix - 1),
       "=====", "\n", "\n" >>

SectionHeader(ix) ==
    << "\n", "=====Relevant messages from memory source", " ", str(ix),
       "=====", "\n", "\n" >>

SectionFooter(ix) ==
    << "\n", "=====End of relevant messages from memory source", " ", str(ix),
       "======", "\n", "\n" >>

\* f"\t{m.role.upper()}: {m.content}\n"
MessageLine(m) == << "\t", upper(m.role), ":", " " >> \o m.content \o << "\n" >>

RECURSIVE MessageLines(_)
MessageLines(chat_history) ==
    IF chat_history = <<>> THEN <<>>
    ELSE MessageLine(Head(chat_history)) \o MessageLines(Tail(chat_history))

\* the sections of the histories from position ix on (ix is 1-based here,
\* so it is the ix + 1 of the source)
RECURSIVE Sections(_, _)
Sections(secondary_chat_histories, ix) ==
    IF ix > Len(secondary_chat_histories) THEN <<>>
    ELSE SectionHeader(ix)
           \o MessageLines(secondary_chat_histories[ix])
           \o SectionFooter(ix)
           \o Sections(secondary_chat_histories, ix + 1)

format_secondary_messages(secondary_chat_histories) ==
    << "\n", "\n" >> \o DEFAULT_INTRO_HISTORY_MESSAGE \o << "\n" >>
      \o Sections(secondary_chat_histories, 1)
      \o DEFAULT_OUTRO_HISTORY_MESSAGE

(***************************************************************************)
(* _compose_message_histories, on the histories the sources returned:      *)
(* messages from the primary source, secondary_returns one per secondary   *)
(* source in the order of the sources.                                     *)
(***************************************************************************)
\* a plausible slip: every history is collected, the empty ones too
collect_everything(secondary_returns) == secondary_returns

\* lines 91-95: only the non-empty histories are collected
collect_secondary(secondary_returns) ==
    SelectSeq(secondary_returns, LAMBDA h : Len(h) > 0)

\* a plausible slip: the block is injected whatever was collected
inject_always(secondary_histories) == TRUE

\* line 98
should_inject(secondary_histories) == Len(secondary_histories) > 0

\* a plausible slip: a SYSTEM message anywhere in the history counts
has_system_anywhere(messages) ==
    \E i \in 1..Len(messages) : messages[i].role = SYSTEM

\* line 104
has_system_head(messages) ==
    Len(messages) > 0 /\ messages[1].role = SYSTEM

\* a plausible slip: the new SYSTEM message is appended, not put first
append_system(messages, block) ==
    Append(messages, ChatMessage(DEFAULT_SYSTEM_MESSAGE \o block, SYSTEM))

\* a plausible slip: the new message gets the role of a user message
insert_user(messages, block) ==
    << ChatMessage(DEFAULT_SYSTEM_MESSAGE \o block, USER) >> \o messages

\* lines 113-120: messages.insert(0, ...)
insert_system(messages, block) ==
    << ChatMessage(DEFAULT_SYSTEM_MESSAGE \o block, SYSTEM) >> \o messages

\* lines 105-111: messages[0] = ...
replace_system(messages, block) ==
    [messages EXCEPT ![1] =
        ChatMessage(
            strip(split_first(messages[1].content,
                              DEFAULT_INTRO_HISTORY_MESSAGE)) \o block,
            SYSTEM)]

compose_message_histories(messages, secondary_returns) ==
    LET secondary_histories == collect_secondary(secondary_returns)
        single_secondary_memory_str ==
            format_secondary_messages(secondary_histories)
    IN  IF should_inject(secondary_histories)
        THEN IF has_system_head(messages)
             THEN replace_system(messages, single_secondary_memory_str)
             ELSE insert_system(messages, single_secondary_memory_str)
        ELSE messages

(***************************************************************************)
(* State.                                                                  *)
(***************************************************************************)
VARIABLES
    \* ---- Spec: the coordinator and its sources
    primary_memory,            \* self._primary_memory: a source
    secondary_memory_sources,  \* self._secondary_memory_sources: sources
    self_sources,              \* self.sources: the list given to __init__
    hands_out,   \* hands_out[s]: get of source s returns the source's own
                 \* list object (otherwise a copy of it)
    keeps,       \* keeps[s]: set of source s keeps the list object it is
                 \* handed (otherwise a copy of it)
    ref,         \* ref[s]: the list object that holds the history of s
    cell,        \* cell[l]: the messages of list object l
    caller,      \* the list object the caller passed to the last set that
                 \* some source still holds; 0 when there is none
    op,          \* the last operation called: its name and the position, in
                 \* the order of the sources, of the source that failed (0:
                 \* none)
    arg,         \* the messages the last operation was called with
    result,      \* the sequence the last operation returned
    err,         \* the exception the last operation raised
    calls,       \* the calls the last operation made on the sources
    \* ---- SpecCompose: successive compositions
    orig_history,   \* the primary history before the first call
    first_out,      \* the result of the first call
    in_history,     \* what the primary source returned in the last call
    in_secondary,   \* what the secondary sources returned in the last call
    out_history,    \* the result of the last call
    ncalls,         \* the number of calls made
    \* ---- SpecConstruct: construction
    given           \* the sources argument of the constructor or the factory

source_vars ==
    << primary_memory, secondary_memory_sources, self_sources, hands_out, keeps,
       ref, cell, caller,
       op, arg, result, err, calls >>

compose_vars ==
    << orig_history, first_out, in_history, in_secondary, out_history, ncalls >>

construct_vars == << given >>

vars == << source_vars, compose_vars, construct_vars >>

(***************************************************************************)
(* Memory sources (BaseMemory): get, get_all, put, set, reset over one     *)
(* ordered history.  A source's history lives in a list object; two        *)
(* sources may hold the same list object.                                  *)
(***************************************************************************)
SourceIds == 1..NumSources

Loc == 1..(NumSources + 2)

Heap == [ref |-> ref, cell |-> cell, caller |-> caller]

\* source.get_all(): the stored history
stored(H, s) == H.cell[H.ref[s]]

\* an exception of the source's own making
source_error(s) == [type |-> "SourceOwnError", raised_by |-> s]

no_error == [type |-> "none", raised_by |-> 0]

\* the list objects somebody holds
held(H) == { H.ref[s] : s \in SourceIds } \cup ({H.caller} \ {0})

\* a new list object
fresh(H) == CHOOSE l \in Loc \ held(H) : \A j \in Loc \ held(H) : l <= j

\* The heap up to the names of the list objects: a list object is named
\* after the first source that holds it, list objects no source holds are
\* dropped, and the caller's list is remembered only while a source holds it.
collect(H) ==
    LET name(l) == CHOOSE s \in SourceIds :
                       /\ H.ref[s] = l
                       /\ \A t \in SourceIds : H.ref[t] = l => s <= t
        names == { name(H.ref[s]) : s \in SourceIds }
    IN  [ref |-> [s \in SourceIds |-> name(H.ref[s])],
         cell |-> [l \in Loc |-> IF l \in names THEN H.cell[H.ref[l]]
                                 ELSE <<>>],
         caller |-> IF \E s \in SourceIds : H.ref[s] = H.caller
                    THEN name(H.caller) ELSE 0]

\* source.put(message): the message is appended to the source's list
source_put(H, s, message) ==
    [H EXCEPT !.cell[H.ref[s]] = Append(@, message)]

\* source.set(messages), messages being list object l: the source keeps
\* the object itself, or a copy of it
source_set(H, s, l) ==
    IF keeps[s]
    THEN [H EXCEPT !.ref[s] = l]
    ELSE [H EXCEPT !.cell[H.ref[s]] = H.cell[l]]

\* source.reset(): the source starts a new, empty history
source_reset(H, s) ==
    IF \E t \in SourceIds \ {s} : H.ref[t] = H.ref[s]
    THEN LET l == fresh(H)
         IN  [H EXCEPT !.ref[s] = l, !.cell[l] = <<>>]
    ELSE IF H.ref[s] = H.caller
    THEN LET l == fresh(H)
         IN  [H EXCEPT !.ref[s] = l, !.cell[l] = <<>>]
    ELSE [H EXCEPT !.cell[H.ref[s]] = <<>>]

(***************************************************************************)
(* The coordinator (Spec).  Every operation is one step: the coordinator   *)
(* is synchronous and single-threaded.  A source may fail; failed is the   *)
(* position, in the order of the calls, of the source whose call raises (0 *)
(* when none does).  A source whose call raises keeps its history.         *)
(***************************************************************************)
\* no coordinator, no source
NoSource == 0

\* line 29: ValueError("Must supply at least one memory source.")
value_error == [type |-> "ValueError", raised_by |-> NoSource]

\* a plausible slip: sources[:-1] for the secondary sources
construct_but_last(sources) ==
    IF Len(sources) = 0
    THEN [primary_memory |-> NoSource, secondary_memory_sources |-> <<>>,
          self_sources |-> <<>>, err |-> value_error]
    ELSE [primary_memory |-> sources[1],
          secondary_memory_sources |-> SubSeq(sources, 1, Len(sources) - 1),
          self_sources |-> sources, err |-> no_error]

\* __init__, lines 27-33: what the new object holds, or the error raised
\* (and then no object)
construct(sources) ==
    IF Len(sources) = 0
    THEN [primary_memory |-> NoSource, secondary_memory_sources |-> <<>>,
          self_sources |-> <<>>, err |-> value_error]
    ELSE [primary_memory |-> sources[1],
          secondary_memory_sources |-> SubSeq(sources, 2, Len(sources)),
          self_sources |-> sources, err |-> no_error]

\* ChatMemoryBuffer.from_defaults(): a new buffer, none of the caller's
ChatMemoryBuffer_from_defaults == NumSources + 1

\* the sources argument of from_defaults: left out (None), or a list
Omitted == [omitted |-> TRUE, list |-> <<>>]

Given(sources) == [omitted |-> FALSE, list |-> sources]

\* a plausible slip: only a missing argument is replaced by the default
sources_unless_none(sources) ==
    IF sources.omitted THEN << ChatMemoryBuffer_from_defaults >>
    ELSE sources.list

\* line 56: sources or [ChatMemoryBuffer.from_defaults()]; None and the
\* empty list are both false
sources_or_default(sources) ==
    IF sources.omitted \/ Len(sources.list) = 0
    THEN << ChatMemoryBuffer_from_defaults >>
    ELSE sources.list

\* from_defaults, lines 50-58
from_defaults(sources) == construct(sources_or_default(sources))

\* a plausible slip: an operation drops the secondary sources
SourcesDropped ==
    /\ secondary_memory_sources' = <<>>
    /\ UNCHANGED << primary_memory, self_sources >>

\* lines 79-150: no operation assigns the references to the sources
SourcesFixed ==
    UNCHANGED << primary_memory, secondary_memory_sources, self_sources >>

\* a plausible slip: the fan-out forgets the secondary sources
primary_only == << primary_memory >>

\* the order in which a fan-out visits the sources: the primary, then the
\* loop over the secondary sources (lines 132-134, 138-140, 148-150)
fan_out_order == << primary_memory >> \o secondary_memory_sources

\* the sources an operation got through before the failure
done(order, failed) == IF failed = 0 THEN Len(order) ELSE failed - 1

\* a plausible slip: the failure is kept for later and every source is
\* called
calls_to_all(f, order, failed) ==
    [i \in 1..Len(order) |-> [f |-> f, source |-> order[i]]]

\* the calls made: up to and including the one that raised
calls_made(f, order, failed) ==
    [i \in 1..(IF failed = 0 THEN Len(order) ELSE failed) |->
        [f |-> f, source |-> order[i]]]

\* a plausible slip: the coordinator wraps the source's exception
wrapped(order, failed) ==
    IF failed = 0 THEN no_error
    ELSE [type |-> "SourceWriteError", raised_by |-> order[failed]]

\* the exception that reaches the caller: nothing catches or wraps it
raised(order, failed) ==
    IF failed = 0 THEN no_error ELSE source_error(order[failed])

RECURSIVE put_each(_, _, _, _)
put_each(H, order, j, message) ==
    IF j = 0 THEN H
    ELSE source_put(put_each(H, order, j - 1, message), order[j], message)

RECURSIVE set_each(_, _, _, _)
set_each(H, order, j, l) ==
    IF j = 0 THEN H
    ELSE source_set(set_each(H, order, j - 1, l), order[j], l)

RECURSIVE reset_each(_, _, _)
reset_each(H, order, j) ==
    IF j = 0 THEN H
    ELSE source_reset(reset_each(H, order, j - 1), order[j])

Commit(H) ==
    LET C == collect(H)
    IN  /\ ref' = C.ref
        /\ cell' = C.cell
        /\ caller' = C.caller

Messages == { ChatMessage(<< "Be brief." >>, SYSTEM),
              ChatMessage(<< "hello" >>, USER) }

\* the histories set is called with: short enough for a put to follow
Histories == UNION { [1..n -> Messages] : n \in 0..(MaxLen - 1) }

\* the implementations of the sources handed to the constructor
SourceKinds ==
    { [hands_out |-> FALSE, keeps |-> FALSE],
      [hands_out |-> TRUE, keeps |-> FALSE],
      [hands_out |-> FALSE, keeps |-> TRUE] }

\* the lists handed to the constructor: the first n sources, and all the
\* sources with the last one put first
SourceLists ==
    { [i \in 1..n |-> i] : n \in 1..NumSources }
      \cup { [i \in 1..NumSources |-> IF i = 1 THEN NumSources ELSE i - 1] }

Init ==
    /\ \E sources \in SourceLists :
          /\ primary_memory = construct(sources).primary_memory
          /\ secondary_memory_sources
                 = construct(sources).secondary_memory_sources
          /\ self_sources = construct(sources).self_sources
          /\ \E kind \in SourceKinds :
                /\ hands_out = [s \in SourceIds |->
                                   kind.hands_out /\ s <= Len(sources)]
                /\ keeps = [s \in SourceIds |->
                               kind.keeps /\ s <= Len(sources)]
    /\ ref = [s \in SourceIds |-> s]
    /\ cell = [l \in Loc |-> <<>>]
    /\ caller = 0
    /\ op = [name |-> "init", failed |-> 0]
    /\ arg = <<>>
    /\ result = <<>>
    /\ err = no_error
    /\ calls = <<>>
    /\ orig_history = <<>>
    /\ first_out = <<>>
    /\ in_history = <<>>
    /\ in_secondary = <<>>
    /\ out_history = <<>>
    /\ ncalls = 0
    /\ given = Omitted

\* what get returns, and the primary's list after it: lines 88-121.  The
\* list that is changed in place is the one the primary source handed out:
\* its own list, or a copy of it.
composed(H) ==
    compose_message_histories(
        stored(H, primary_memory),
        [i \in 1..Len(secondary_memory_sources) |->
            stored(H, secondary_memory_sources[i])])

\* a plausible slip: the coordinator works on a copy
get_on_copy(H, messages) == H

get_effect(H, messages) ==
    IF hands_out[primary_memory]
    THEN [H EXCEPT !.cell[H.ref[primary_memory]] = messages]
    ELSE H

\* get: lines 79-121
Get(failed) ==
    /\ failed \in 0..Len(fan_out_order)
    /\ op' = [name |-> "get", failed |-> failed]
    /\ arg' = <<>>
    /\ calls' = calls_made("get", fan_out_order, failed)
    /\ err' = raised(fan_out_order, failed)
    /\ IF failed = 0
       THEN LET messages == composed(Heap)
            IN  /\ result' = messages
                /\ Commit(get_effect(Heap, messages))
       ELSE /\ result' = <<>>
            /\ UNCHANGED << ref, cell, caller >>
    /\ SourcesFixed
    /\ UNCHANGED << hands_out, keeps, compose_vars, construct_vars >>

\* a plausible slip: get_all composes the histories as get does
get_all_composed(H) == composed(H)

\* line 128: what the primary source's get_all returns
get_all_result(H) == stored(H, primary_memory)

\* get_all: lines 123-128
GetAll(failed) ==
    /\ failed \in 0..1
    /\ op' = [name |-> "get_all", failed |-> failed]
    /\ arg' = <<>>
    /\ calls' = calls_made("get_all", << primary_memory >>, failed)
    /\ err' = raised(<< primary_memory >>, failed)
    /\ result' = IF failed = 0 THEN get_all_result(Heap) ELSE <<>>
    /\ UNCHANGED << ref, cell, caller >>
    /\ SourcesFixed
    /\ UNCHANGED << hands_out, keeps, compose_vars, construct_vars >>

\* put: lines 130-134
Put(message, failed) ==
    /\ failed \in 0..Len(fan_out_order)
    /\ \A i \in 1..Len(fan_out_order) :
           Len(stored(Heap, fan_out_order[i])) < MaxLen
    /\ op' = [name |-> "put", failed |-> failed]
    /\ arg' = << message >>
    /\ calls' = calls_made("put", fan_out_order, failed)
    /\ err' = raised(fan_out_order, failed)
    /\ result' = <<>>
    /\ Commit(put_each(Heap, fan_out_order, done(fan_out_order, failed),
                       message))
    /\ SourcesFixed
    /\ UNCHANGED << hands_out, keeps, compose_vars, construct_vars >>

\* the caller's list object, new for every call of set
with_caller_list(H, messages) ==
    LET H0 == [H EXCEPT !.caller = 0]
        l == fresh(H0)
    IN  [H0 EXCEPT !.caller = l, !.cell[l] = messages]

\* set: lines 136-140
Set(messages, failed) ==
    /\ failed \in 0..Len(fan_out_order)
    /\ op' = [name |-> "set", failed |-> failed]
    /\ arg' = messages
    /\ calls' = calls_made("set", fan_out_order, failed)
    /\ err' = raised(fan_out_order, failed)
    /\ result' = <<>>
    /\ LET H == with_caller_list(Heap, messages)
       IN  Commit(set_each(H, fan_out_order, done(fan_out_order, failed),
                           H.caller))
    /\ SourcesFixed
    /\ UNCHANGED << hands_out, keeps, compose_vars, construct_vars >>

\* a plausible slip: reset clears every source
reset_everything == fan_out_order

\* the sources reset visits: line 144
reset_order == << primary_memory >>

\* reset: lines 142-144
Reset(failed) ==
    /\ failed \in 0..Len(reset_order)
    /\ op' = [name |-> "reset", failed |-> failed]
    /\ arg' = <<>>
    /\ calls' = calls_made("reset", reset_order, failed)
    /\ err' = raised(reset_order, failed)
    /\ result' = <<>>
    /\ Commit(reset_each(Heap, reset_order, done(reset_order, failed)))
    /\ SourcesFixed
    /\ UNCHANGED << hands_out, keeps, compose_vars, construct_vars >>

\* reset_all: lines 146-150
ResetAll(failed) ==
    /\ failed \in 0..Len(fan_out_order)
    /\ op' = [name |-> "reset_all", failed |-> failed]
    /\ arg' = <<>>
    /\ calls' = calls_made("reset", fan_out_order, failed)
    /\ err' = raised(fan_out_order, failed)
    /\ result' = <<>>
    /\ Commit(reset_each(Heap, fan_out_order, done(fan_out_order, failed)))
    /\ SourcesFixed
    /\ UNCHANGED << hands_out, keeps, compose_vars, construct_vars >>

Next ==
    \/ \E failed \in 0..NumSources : Get(failed)
    \/ \E failed \in 0..1 : GetAll(failed)
    \/ \E message \in Messages, failed \in 0..NumSources : Put(message, failed)
    \/ \E messages \in Histories, failed \in 0..NumSources :
           Set(messages, failed)
    \/ \E failed \in 0..1 : Reset(failed)
    \/ \E failed \in 0..NumSources : ResetAll(failed)

Spec == Init /\ [][Next]_vars

(***************************************************************************)
(* SpecCompose: get's composition, call after call.  The first call        *)
(* receives orig_history from the primary source; every later call         *)
(* receives the result of the call before it (the injected content was     *)
(* persisted in the primary source).  The secondary sources, whose number  *)
(* is fixed from the start, return any histories, call by call.            *)
(***************************************************************************)
\* contents of a leading SYSTEM message
XPlain == << "Be brief." >>
XPadded == << " ", "Be", " ", "brief.", "\n" >>
XPartial == << "Be brief.", " ",
               "Below are a set of relevant dialogues retrieved from", " " >>
XMarked == << "Be brief.", " " >> \o DEFAULT_INTRO_HISTORY_MESSAGE
              \o << " ", "none" >>

SystemContents == { XPlain, XPadded, XPartial, XMarked }

UserHello == ChatMessage(<< "hello" >>, USER)
AssistantHi == ChatMessage(<< "hi", " ", "there" >>, ASSISTANT)
\* a retrieved message that quotes the marker sentence
AssistantQuote ==
    ChatMessage(<< "you said:", " " >> \o DEFAULT_INTRO_HISTORY_MESSAGE
                  \o << " ", "ok" >>, ASSISTANT)

PrimaryHistories ==
    { <<>>, << UserHello >>, << UserHello, ChatMessage(XPlain, SYSTEM) >> }
      \cup { << ChatMessage(x, SYSTEM) >> : x \in SystemContents }
      \cup { << ChatMessage(x, SYSTEM), UserHello, AssistantHi >> :
                 x \in SystemContents }

SecondaryHistories ==
    { <<>>, << UserHello >>, << AssistantQuote, UserHello >> }

\* what n secondary sources return in one call: one history per source
SecondaryReturns(n) == [1..n -> SecondaryHistories]

SourcesIdle ==
    /\ primary_memory = 1
    /\ secondary_memory_sources = <<>>
    /\ self_sources = << 1 >>
    /\ hands_out = [s \in SourceIds |-> FALSE]
    /\ keeps = [s \in SourceIds |-> FALSE]
    /\ ref = [s \in SourceIds |-> s]
    /\ cell = [l \in Loc |-> <<>>]
    /\ caller = 0
    /\ op = [name |-> "init", failed |-> 0]
    /\ arg = <<>>
    /\ result = <<>>
    /\ err = no_error
    /\ calls = <<>>

InitCompose ==
    /\ SourcesIdle
    /\ orig_history \in PrimaryHistories
    /\ first_out = <<>>
    /\ in_history = <<>>
    /\ \E n \in 0..(NumSources - 1) : in_secondary = [i \in 1..n |-> <<>>]
    /\ out_history = <<>>
    /\ ncalls = 0
    /\ given = Omitted

\* one call of get: lines 79-121 on what the sources returned
ComposeCall(secondary_returns) ==
    /\ ncalls < MaxCalls
    /\ in_history' = IF ncalls = 0 THEN orig_history ELSE out_history
    /\ in_secondary' = secondary_returns
    /\ out_history' = compose_message_histories(in_history', secondary_returns)
    /\ first_out' = IF ncalls = 0 THEN out_history' ELSE first_out
    /\ ncalls' = ncalls + 1
    /\ UNCHANGED << orig_history, source_vars, construct_vars >>

\* the number of secondary sources is that of the construction
NextCompose == \E secondary_returns \in SecondaryReturns(Len(in_secondary)) :
                   ComposeCall(secondary_returns)

SpecCompose == InitCompose /\ [][NextCompose]_vars

(***************************************************************************)
(* SpecConstruct: construction.  The caller holds a sources argument and   *)
(* calls the constructor or the factory with it, once.                     *)
(***************************************************************************)
\* the lists a caller may hand over: any sources, in any order, none too
SourceArguments ==
    { Given(l) : l \in UNION { [1..n -> SourceIds] : n \in 0..NumSources } }

InitConstruct ==
    /\ given \in SourceArguments \cup {Omitted}
    /\ primary_memory = NoSource
    /\ secondary_memory_sources = <<>>
    /\ self_sources = <<>>
    /\ hands_out = [s \in SourceIds |-> FALSE]
    /\ keeps = [s \in SourceIds |-> FALSE]
    /\ ref = [s \in SourceIds |-> s]
    /\ cell = [l \in Loc |-> <<>>]
    /\ caller = 0
    /\ op = [name |-> "none", failed |-> 0]
    /\ arg = <<>>
    /\ result = <<>>
    /\ err = no_error
    /\ calls = <<>>
    /\ orig_history = <<>>
    /\ first_out = <<>>
    /\ in_history = <<>>
    /\ in_secondary = <<>>
    /\ out_history = <<>>
    /\ ncalls = 0

\* what a construction leaves: the new object's fields, or the error
Constructed(name, c) ==
    /\ op' = [name |-> name, failed |-> 0]
    /\ primary_memory' = c.primary_memory
    /\ secondary_memory_sources' = c.secondary_memory_sources
    /\ self_sources' = c.self_sources
    /\ err' = c.err
    /\ UNCHANGED << hands_out, keeps, ref, cell, caller, arg, result, calls,
                    compose_vars, construct_vars >>

\* SimpleComposableMemory(sources=...): lines 27-33
Construct ==
    /\ op.name = "none"
    /\ ~given.omitted
    /\ Constructed("__init__", construct(given.list))

\* SimpleComposableMemory.from_defaults(...): lines 50-58
FromDefaults ==
    /\ op.name = "none"
    /\ Constructed("from_defaults", from_defaults(given))

NextConstruct == Construct \/ FromDefaults

SpecConstruct == InitConstruct /\ [][NextConstruct]_vars

(***************************************************************************)
(* Properties of the composition (SpecCompose).                            *)
(***************************************************************************)
\* number of occurrences of sub in s
count(s, sub) ==
    Cardinality({ i \in 1..(Len(s) - Len(sub) + 1) :
                      SubSeq(s, i, i + Len(sub) - 1) = sub })

NonWhitespace(s) == { i \in 1..Len(s) : ~IsWhitespace(s[i]) }

FirstOf(S) == CHOOSE i \in S : \A j \in S : i <= j

LastOf(S) == CHOOSE i \in S : \A j \in S : j <= i

\* s without its trailing whitespace
TrimmedRight(s) ==
    IF NonWhitespace(s) = {} THEN <<>>
    ELSE SubSeq(s, 1, LastOf(NonWhitespace(s)))

\* s without its leading and its trailing whitespace
TrimmedBoth(s) ==
    IF NonWhitespace(s) = {} THEN <<>>
    ELSE SubSeq(s, FirstOf(NonWhitespace(s)), LastOf(NonWhitespace(s)))

HasMarker(s) == find(s, DEFAULT_INTRO_HISTORY_MESSAGE) # 0

SomeNonEmpty(returns) == \E i \in 1..Len(returns) : returns[i] # <<>>

NonEmptyOnes(returns) == SelectSeq(returns, LAMBDA h : h # <<>>)

\* the block injected by the last call
LastBlock == format_secondary_messages(NonEmptyOnes(in_secondary))

\* s starts with prefix, and a freshly formatted block follows it
IsPrefixThenBlock(s, prefix) ==
    LET opening == << "\n", "\n" >> \o DEFAULT_INTRO_HISTORY_MESSAGE
    IN  /\ Len(s) >= Len(prefix) + Len(opening)
        /\ SubSeq(s, 1, Len(prefix)) = prefix
        /\ SubSeq(s, Len(prefix) + 1, Len(prefix) + Len(opening)) = opening

\* the case of C1: the primary history began with SYSTEM content X free of
\* the marker, the first get gave X + B, and get was called again on its
\* own results
C1_Case ==
    /\ ncalls >= 2
    /\ has_system_head(orig_history)
    /\ ~HasMarker(orig_history[1].content)
    /\ first_out # <<>>
    /\ IsPrefixThenBlock(first_out[1].content, orig_history[1].content)

\* C1: repeated composition is idempotent.  When the primary history starts
\* with SYSTEM content X (no marker in X) and the first get yields X + B,
\* then after any number of further gets, each fed the result of the one
\* before, the first message is SYSTEM, its content holds exactly one
\* injected block, and after a call whose secondaries yield block B' the
\* content is X + B', never X + B + B'.
C1_Idempotent ==
    C1_Case =>
        /\ out_history # <<>>
        /\ out_history[1].role = SYSTEM
        /\ count(out_history[1].content, DEFAULT_OUTRO_HISTORY_MESSAGE) = 1
        /\ SomeNonEmpty(in_secondary) =>
               out_history[1].content = orig_history[1].content \o LastBlock

\* C1 happens: a third call, each of the three calls having injected a
\* block that differs from the one before
C1_Witness ==
    /\ C1_Case
    /\ ncalls >= 3
    /\ SomeNonEmpty(in_secondary)
    /\ in_history[1].content # first_out[1].content
    /\ out_history[1].content # in_history[1].content

\* the case of C2: the last call saw a leading SYSTEM message free of the
\* marker and at least one non-empty secondary history
C2_Case ==
    /\ ncalls >= 1
    /\ has_system_head(in_history)
    /\ ~HasMarker(in_history[1].content)
    /\ SomeNonEmpty(in_secondary)

\* all but the first message are the primary's, in their places
RestUnchanged ==
    /\ Len(out_history) = Len(in_history)
    /\ \A i \in 2..Len(in_history) : out_history[i] = in_history[i]

\* C2 as claimed: the first message of the result is SYSTEM with content X
\* with only its trailing whitespace removed (leading whitespace kept),
\* followed by B; same length; the other messages unchanged.
C2_TrailingOnly ==
    C2_Case =>
        /\ out_history[1].role = SYSTEM
        /\ out_history[1].content
               = TrimmedRight(in_history[1].content) \o LastBlock
        /\ RestUnchanged

\* C2 amended: the first message of the result is SYSTEM with content X
\* with its leading and its trailing whitespace removed, followed by B; the
\* result has the length of the primary history and every other message is
\* unchanged in its place.
C2_BothEnds ==
    C2_Case =>
        /\ out_history[1].role = SYSTEM
        /\ out_history[1].content
               = TrimmedBoth(in_history[1].content) \o LastBlock
        /\ RestUnchanged

\* C2 happens: X has leading and trailing whitespace, other messages follow
C2_Witness ==
    /\ C2_Case
    /\ Len(in_history) >= 2
    /\ IsWhitespace(in_history[1].content[1])
    /\ IsWhitespace(in_history[1].content[Len(in_history[1].content)])

\* C3: when every secondary source returns an empty history (also when
\* there is no secondary source), get returns exactly what the primary
\* source returned: nothing inserted, nothing rewritten.
C3_NoSecondary ==
    (ncalls >= 1 /\ ~SomeNonEmpty(in_secondary)) => out_history = in_history

\* C3 happens: two secondary sources, both empty, a primary history that
\* starts with a SYSTEM message
C3_Witness ==
    /\ ncalls >= 1
    /\ Len(in_secondary) = 2
    /\ ~SomeNonEmpty(in_secondary)
    /\ has_system_head(in_history)
    /\ out_history = in_history

\* C4: when the primary source returns an empty history and some secondary
\* source a non-empty one, get returns exactly one message, of role SYSTEM,
\* whose content is the default assistant sentence followed at once by the
\* injection block.
C4_EmptyPrimary ==
    (ncalls >= 1 /\ in_history = <<>> /\ SomeNonEmpty(in_secondary)) =>
        /\ Len(out_history) = 1
        /\ out_history[1].role = SYSTEM
        /\ out_history[1].content
               = << "You are a helpful assistant." >> \o LastBlock

\* C4 happens
C4_Witness ==
    /\ ncalls >= 1
    /\ in_history = <<>>
    /\ SomeNonEmpty(in_secondary)
    /\ Len(out_history) = 1

\* the last call injected a block
Injected == ncalls >= 1 /\ SomeNonEmpty(in_secondary)

\* the block as it stands in the result of the last call: the text of the
\* first message from the two line feeds before the marker sentence on
InjectedBlock ==
    LET content == out_history[1].content
    IN  SubSeq(content, find(content, DEFAULT_INTRO_HISTORY_MESSAGE) - 2,
               Len(content))

\* the positions of token t in s
Positions(s, t) == { i \in 1..Len(s) : s[i] = t }

\* the i-th smallest element of S
Nth(S, i) == CHOOSE x \in S : Cardinality({ y \in S : y <= x }) = i

HeaderText == "=====Relevant messages from memory source"

FooterText == "=====End of relevant messages from memory source"

RoleText == { << SYSTEM, "SYSTEM" >>, << USER, "USER" >>,
              << ASSISTANT, "ASSISTANT" >> }

\* s, from position from to position to, is the messages of history, one
\* line each: a tab, the upper-case role, a colon and a space, the
\* content, a line feed
IsLinesOf(s, from, to, history) ==
    LET tabs == { i \in from..to : s[i] = "\t" }
        at(j) == Nth(tabs, j)
    IN  /\ Cardinality(tabs) = Len(history)
        /\ Len(history) = 0 => to = from - 1
        /\ Len(history) > 0 => at(1) = from
        /\ \A j \in 1..Len(history) :
               LET m == history[j]
                   stop == at(j) + 4 + Len(m.content)
               IN  /\ stop <= to
                   /\ << m.role, s[at(j) + 1] >> \in RoleText
                   /\ s[at(j) + 2] = ":"
                   /\ s[at(j) + 3] = " "
                   /\ SubSeq(s, at(j) + 4, stop - 1) = m.content
                   /\ s[stop] = "\n"
                   /\ IF j < Len(history) THEN at(j + 1) = stop + 1
                      ELSE stop = to

\* block is the formatting of histories: the introductory sentence, one
\* section per history, numbered from 1 in the order of the histories, the
\* closing sentence
IsBlockOf(block, histories) ==
    LET k == Len(histories)
        headers == Positions(block, HeaderText)
        footers == Positions(block, FooterText)
        h(i) == Nth(headers, i)
        f(i) == Nth(footers, i)
        opening == << "\n", "\n" >> \o DEFAULT_INTRO_HISTORY_MESSAGE
                       \o << "\n" >>
    IN  /\ SubSeq(block, 1, Len(opening)) = opening
        /\ << block[Len(block)] >> = DEFAULT_OUTRO_HISTORY_MESSAGE
        /\ Cardinality(headers) = k
        /\ Cardinality(footers) = k
        /\ k > 0 => h(1) = Len(opening) + 2 /\ f(k) + 5 = Len(block) - 1
        /\ \A i \in 1..k :
               /\ h(i) < f(i)
               /\ SubSeq(block, h(i) - 1, h(i) + 5)
                      = << "\n", HeaderText, " ", str(i), "=====", "\n", "\n" >>
               /\ SubSeq(block, f(i) - 1, f(i) + 5)
                      = << "\n", FooterText, " ", str(i), "======", "\n",
                           "\n" >>
               /\ IsLinesOf(block, h(i) + 6, f(i) - 2, histories[i])
               /\ i < k => h(i + 1) = f(i) + 7

\* C13: formatting k non-empty histories gives, between the introductory
\* sentence and the closing sentence, exactly k sections numbered 1..k in
\* the order of the histories; header and footer of section i both name i,
\* and section i holds exactly the messages of the i-th history, one line
\* each, upper-case role then content, in the order of the messages.
C13_Sections ==
    Injected =>
        /\ IsBlockOf(LastBlock, NonEmptyOnes(in_secondary))
        /\ InjectedBlock = LastBlock

\* C13 happens: two histories, of one and of two messages
C13_Witness ==
    /\ Injected
    /\ Len(in_secondary) = 2
    /\ Len(in_secondary[1]) = 1
    /\ Len(in_secondary[2]) = 2
    /\ Cardinality(Positions(InjectedBlock, HeaderText)) = 2

\* the case of C15: the last call saw a non-empty primary history whose
\* first message is not a SYSTEM message, and a non-empty secondary history
C15_Case ==
    /\ Injected
    /\ in_history # <<>>
    /\ in_history[1].role # SYSTEM

\* C15: when the primary history is non-empty, its first message is not a
\* SYSTEM message and some secondary history is non-empty, the result is
\* one longer than the primary history, its first message is a new SYSTEM
\* message whose content is the default assistant sentence followed by the
\* block, and the primary messages follow unchanged in their order (a
\* SYSTEM message further down is left as it is).
C15_InsertedFirst ==
    C15_Case =>
        /\ Len(out_history) = Len(in_history) + 1
        /\ out_history[1].role = SYSTEM
        /\ out_history[1].content
               = << "You are a helpful assistant." >> \o InjectedBlock
        /\ IsBlockOf(InjectedBlock, NonEmptyOnes(in_secondary))
        /\ \A i \in 1..Len(in_history) : out_history[i + 1] = in_history[i]

\* C15 happens: a user message, then a SYSTEM message, in the primary
C15_Witness ==
    /\ C15_Case
    /\ Len(in_history) = 2
    /\ in_history[2].role = SYSTEM
    /\ Len(out_history) = 3
    /\ out_history[3] = in_history[2]

\* the secondary sources, by position, whose get returned a non-empty
\* history in the last call
Contributors == { i \in 1..Len(in_secondary) : in_secondary[i] # <<>> }

\* their histories, in the order of the sources
Contributions ==
    [j \in 1..Cardinality(Contributors) |-> in_secondary[Nth(Contributors, j)]]

\* C16: in the block injected by get a secondary source has a section if
\* and only if its get returned a non-empty history: there are as many
\* sections as such sources, they stand in the order of the sources, the
\* header and the footer of the i-th section both name i (counting the
\* non-empty histories from 1), and no section is empty.
C16_NonEmptyOnly ==
    Injected =>
        /\ Cardinality(Positions(InjectedBlock, HeaderText))
               = Cardinality(Contributors)
        /\ IsBlockOf(InjectedBlock, Contributions)
        /\ \A i \in Positions(InjectedBlock, HeaderText) :
               InjectedBlock[i + 6] = "\t"

\* C16 happens: the first secondary source returned nothing, the second a
\* history, whose section is numbered 1
C16_Witness ==
    /\ Injected
    /\ Len(in_secondary) = 2
    /\ Contributors = {2}
    /\ Cardinality(Positions(InjectedBlock, HeaderText)) = 1
    /\ InjectedBlock[Nth(Positions(InjectedBlock, HeaderText), 1) + 2] = "1"

\* where the marker sentence starts in s
Markers(s) ==
    { i \in 1..(Len(s) - Len(DEFAULT_INTRO_HISTORY_MESSAGE) + 1) :
          SubSeq(s, i, i + Len(DEFAULT_INTRO_HISTORY_MESSAGE) - 1)
              = DEFAULT_INTRO_HISTORY_MESSAGE }

\* the case of C17: the leading SYSTEM message the last call received is a
\* composed one whose block quotes the marker sentence in a retrieved
\* message, and the call injected a block again
C17_Case ==
    /\ ncalls >= 2
    /\ Injected
    /\ has_system_head(in_history)
    /\ Cardinality(Markers(in_history[1].content)) >= 2

\* C17 as claimed: the old block is cut off at the inner occurrence of the
\* marker, the one inside the retrieved message: the new content is the old
\* content up to that occurrence, trimmed, then the new block.
C17_InnerSplit ==
    C17_Case =>
        \E p \in Markers(in_history[1].content) :
            /\ p # FirstOf(Markers(in_history[1].content))
            /\ out_history[1].content
                   = TrimmedBoth(SubSeq(in_history[1].content, 1, p - 1))
                       \o LastBlock

\* C17 amended: the old block is cut off at the first occurrence of the
\* marker, which is the introductory sentence of the old block itself and
\* stands before every section; the inner occurrence goes with the old
\* block, and the new content is the text before the old block, trimmed,
\* then the new block.
C17_FirstSplit ==
    C17_Case =>
        LET old == in_history[1].content
            p == FirstOf(Markers(old))
        IN  /\ \A i \in Positions(old, HeaderText) : p < i
            /\ \E q \in Markers(old) : \E i \in Positions(old, HeaderText) :
                   i < q
            /\ out_history[1].content
                   = TrimmedBoth(SubSeq(old, 1, p - 1)) \o LastBlock

\* C17 happens: the primary history began with the SYSTEM message "Be
\* brief.", an earlier call injected a message that quotes the marker, and
\* the last call gave "Be brief." and its own block
C17_Witness ==
    /\ C17_Case
    /\ has_system_head(orig_history)
    /\ orig_history[1].content = XPlain
    /\ out_history[1].content = XPlain \o InjectedBlock

(***************************************************************************)
(* Properties of the coordinator (Spec).                                   *)
(***************************************************************************)
\* the stored history of source s, as get_all of the source shows it
History(s) == cell[ref[s]]

\* the sources of the coordinator, in the order of construction
Order == << primary_memory >> \o secondary_memory_sources

Succeeded(name) == op.name = name /\ op.failed = 0

\* C5: get never changes the stored history of any source, also when the
\* primary source's get hands back its own list.
C5_GetLeavesSources ==
    [][op'.name = "get" =>
          \A s \in SourceIds : cell'[ref'[s]] = cell[ref[s]]]_vars

\* C6: a put(m) in which no source fails leaves every source's stored
\* history equal to its previous stored history with m appended once, the
\* writes going to the primary first and then to the secondaries in order.
C6_PutAppendsOnce ==
    [][(op'.name = "put" /\ op'.failed = 0) =>
          /\ \A i \in 1..Len(Order) :
                 cell'[ref'[Order[i]]]
                     = Append(cell[ref[Order[i]]], arg'[1])
          /\ calls' = [i \in 1..Len(Order) |->
                          [f |-> "put", source |-> Order[i]]]]_vars

\* C7: when the write to the k-th source fails during put or set, the
\* operation fails, every source before k holds the new write, and the
\* k-th source and every source after it keep their previous stored
\* history; no write is attempted on the later sources.
C7_PartialFailure ==
    [][(op'.name \in {"put", "set"} /\ op'.failed # 0) =>
          /\ err' # no_error
          /\ \A i \in 1..(op'.failed - 1) :
                 cell'[ref'[Order[i]]]
                     = IF op'.name = "put"
                       THEN Append(cell[ref[Order[i]]], arg'[1])
                       ELSE arg'
          /\ \A i \in op'.failed..Len(Order) :
                 cell'[ref'[Order[i]]] = cell[ref[Order[i]]]
          /\ Len(calls') = op'.failed]_vars

FailedWrite ==
    op.name \in {"put", "set", "reset", "reset_all"} /\ op.failed # 0

\* C8 as claimed: the error of a failed fan-out is a SourceWriteError that
\* names the failing source, not the source's own error.
C8_Wrapped ==
    FailedWrite =>
        /\ err.type = "SourceWriteError"
        /\ err.raised_by = Order[op.failed]

\* C8 amended: the error the caller receives from a failed put, set, reset
\* or reset_all is the failing source's own error, passed on unchanged.
C8_PassedThrough ==
    FailedWrite => err = source_error(Order[op.failed])

\* C8 happens: the second of three sources fails in set
C8_Witness ==
    /\ op.name = "set"
    /\ op.failed = 2
    /\ Len(Order) = 3
    /\ err.type = "SourceOwnError"

\* C9: reset clears the primary only: after it the primary's stored
\* history is empty and every secondary's is what it was; a get that
\* follows, with a non-empty secondary, yields one SYSTEM message that
\* carries the injection block.
C9_ResetPrimaryOnly ==
    [][/\ (op'.name = "reset" /\ op'.failed = 0) =>
              /\ cell'[ref'[primary_memory]] = <<>>
              /\ \A i \in 1..Len(secondary_memory_sources) :
                     cell'[ref'[secondary_memory_sources[i]]]
                         = cell[ref[secondary_memory_sources[i]]]
       /\ (/\ Succeeded("reset")
           /\ op'.name = "get" /\ op'.failed = 0
           /\ \E i \in 1..Len(secondary_memory_sources) :
                  History(secondary_memory_sources[i]) # <<>>) =>
              /\ Len(result') = 1
              /\ result'[1].role = SYSTEM
              /\ count(result'[1].content, DEFAULT_INTRO_HISTORY_MESSAGE) = 1
              /\ count(result'[1].content, DEFAULT_OUTRO_HISTORY_MESSAGE) = 1
      ]_vars

\* C9 happens: a reset that emptied a non-empty primary next to a non-empty
\* secondary
C9_Witness ==
    /\ Succeeded("reset")
    /\ History(primary_memory) = <<>>
    /\ Len(secondary_memory_sources) = 2
    /\ \A i \in 1..2 : History(secondary_memory_sources[i]) # <<>>

\* C10: after a reset_all in which no source fails every source's stored
\* history is empty, whatever came before; the resets go to the primary
\* first and then to the secondaries in order.
C10_ResetAll ==
    Succeeded("reset_all") =>
        /\ \A i \in 1..Len(Order) : History(Order[i]) = <<>>
        /\ calls = [i \in 1..Len(Order) |->
                       [f |-> "reset", source |-> Order[i]]]

\* C10 happens: three sources, reset_all went through
C10_Witness ==
    /\ Succeeded("reset_all")
    /\ Len(Order) = 3
    /\ Len(calls) = 3

\* C11: get_all returns the primary source's complete stored history as it
\* is (no SYSTEM message inserted, no block added), makes one call, to the
\* primary source's get_all, and none to a secondary source, and leaves
\* every source's stored history as it was, whatever the secondaries hold.
C11_GetAllPrimaryOnly ==
    [][(op'.name = "get_all" /\ op'.failed = 0) =>
          /\ result' = cell[ref[primary_memory]]
          /\ calls' = << [f |-> "get_all", source |-> primary_memory] >>
          /\ \A s \in SourceIds : cell'[ref'[s]] = cell[ref[s]]]_vars

\* C11 happens: get_all next to two non-empty secondary sources, the
\* primary's history not starting with a SYSTEM message
C11_Witness ==
    /\ Succeeded("get_all")
    /\ Len(secondary_memory_sources) = 2
    /\ \A i \in 1..2 : History(secondary_memory_sources[i]) # <<>>
    /\ History(primary_memory) # <<>>
    /\ History(primary_memory)[1].role = USER
    /\ result = History(primary_memory)

\* C14: a read failure during get.  The primary is queried first, then the
\* secondaries in their order; when the get of the source at position k
\* fails, the caller receives that failure, no sequence is returned, the
\* calls made are exactly one get on each of the sources 1..k (no source
\* after k is queried, none is queried twice), and no stored history
\* changes.
C14_ReadFailure ==
    [][(op'.name = "get" /\ op'.failed # 0) =>
          /\ err' = source_error(Order[op'.failed])
          /\ result' = <<>>
          /\ calls' = [i \in 1..op'.failed |->
                          [f |-> "get", source |-> Order[i]]]
          /\ \A s \in SourceIds : cell'[ref'[s]] = cell[ref[s]]]_vars

\* C14 happens: the first of two secondary sources fails in get, the
\* histories being non-empty
C14_Witness ==
    /\ op.name = "get"
    /\ op.failed = 2
    /\ Len(Order) = 3
    /\ Len(calls) = 2
    /\ err = source_error(Order[2])
    /\ \A i \in 1..3 : History(Order[i]) # <<>>

\* C18: the list of sources is fixed after construction.  Across every
\* get, get_all, put, set, reset and reset_all, failed ones included, the
\* primary stays the first source given to the constructor and the
\* secondaries stay the remaining ones in their order.
C18_SourcesFixed ==
    [][/\ self_sources' = self_sources
       /\ primary_memory' = primary_memory
       /\ secondary_memory_sources' = secondary_memory_sources
       /\ primary_memory' = self_sources[1]
       /\ secondary_memory_sources'
              = SubSeq(self_sources, 2, Len(self_sources))]_vars

\* C18 happens: the coordinator was built with the last source first; a
\* set went through and the reset_all after it failed at the second source
C18_Witness ==
    /\ op.name = "reset_all"
    /\ op.failed = 2
    /\ Len(self_sources) = NumSources
    /\ self_sources[1] = NumSources
    /\ primary_memory = NumSources
    /\ secondary_memory_sources = [i \in 1..(NumSources - 1) |-> i]
    /\ History(primary_memory) = <<>>
    /\ History(secondary_memory_sources[1]) # <<>>

\* C19: set followed by put keeps the sources independent.  After a set(S)
\* and then a put(m), neither failing, every source's stored history is S
\* followed by exactly one m, and the caller's sequence S is unchanged: the
\* one sequence handed to every source never makes a write to one source
\* show in another.
C19_SetThenPut ==
    [][(Succeeded("set") /\ op'.name = "put" /\ op'.failed = 0) =>
          /\ \A i \in 1..Len(Order) :
                 cell'[ref'[Order[i]]] = Append(arg, arg'[1])
          /\ caller' # 0 => cell'[caller'] = arg]_vars

(***************************************************************************)
(* Properties of the construction (SpecConstruct).                         *)
(***************************************************************************)
\* the constructor was called with a list of sources
Constructing == op.name = "__init__"

\* the coordinator built from a non-empty list: the first source is the
\* primary, the others are the secondaries, in the order given
BuiltFrom(list) ==
    /\ err = no_error
    /\ primary_memory = list[1]
    /\ Len(secondary_memory_sources) = Len(list) - 1
    /\ \A i \in 2..Len(list) : secondary_memory_sources[i - 1] = list[i]

\* C12 as claimed: construction from a non-empty list succeeds with the
\* first source as primary and the others, in order, as secondaries;
\* construction from an empty list fails with a ConfigurationError and
\* yields no coordinator.
C12_ConfigurationError ==
    Constructing =>
        IF Len(given.list) > 0 THEN BuiltFrom(given.list)
        ELSE err.type = "ConfigurationError" /\ primary_memory = NoSource

\* C12 amended: construction from a non-empty list succeeds with the first
\* source as primary and the others, in order, as secondaries; construction
\* from an empty list fails with a ValueError and yields no coordinator.
C12_ValueError ==
    Constructing =>
        IF Len(given.list) > 0 THEN BuiltFrom(given.list)
        ELSE /\ err.type = "ValueError"
             /\ primary_memory = NoSource
             /\ secondary_memory_sources = <<>>

\* C12 happens: the constructor was called with the empty list
C12_Witness ==
    /\ Constructing
    /\ given.list = <<>>
    /\ err # no_error
    /\ primary_memory = NoSource

\* the coordinator the factory builds when the argument is left out
DefaultBuilt ==
    /\ err = no_error
    /\ primary_memory = ChatMemoryBuffer_from_defaults
    /\ primary_memory \notin SourceIds
    /\ secondary_memory_sources = <<>>
    /\ self_sources = << primary_memory >>

\* C20: the factory called with an explicitly empty list of sources does
\* what it does when the list is left out: it returns a coordinator whose
\* only source, the primary, is one newly created default buffer, with no
\* secondary source, and does not fail with the error of the empty list.
C20_EmptyAsOmitted ==
    (op.name = "from_defaults" /\ Len(given.list) = 0) => DefaultBuilt

\* C20 happens: the factory was called with the empty list
C20_Witness ==
    /\ op.name = "from_defaults"
    /\ given = Given(<<>>)
    /\ DefaultBuilt

=============================================================================
